---- MODULE Spec2Model ----
(***************************************************************************)
(* Model of the feature-flag evaluation core:                              *)
(*   - src/src/evaluation/error.rs : EvaluationErrorCode, EvaluationError  *)
(*   - src/src/traits.rs           : ClientTraits (declarations only)      *)
(*                                                                         *)
(* Rust values are encoded as follows.                                     *)
(*   Option<T>            None == << >>,  Some(x) == << x >>               *)
(*   EvaluationErrorCode  << "FlagNotFound" >>, ..., << "General", m >>    *)
(*   EvaluationError      [code |-> c, message |-> Option<String>]         *)
(*   String               a TLA+ string                                    *)
(***************************************************************************)
EXTENDS Naturals, Sequences, FiniteSets

VARIABLES
    calls,               \* the error-API calls made so far, with their results
    evaluation_context,  \* Client: the client-held EvaluationContext
    written_by,          \* per field of evaluation_context: the set call that wrote it
    installed,           \* the contexts handed to set_evaluation_context, in call order
    borrow,              \* per thread: its borrow of the client ("none", "shared", "mut")
    pc,                  \* per thread: its position
    frame                \* per thread: arguments and locals of the call in progress

clientVars == << evaluation_context, written_by, installed, borrow, pc, frame >>

vars == << calls, evaluation_context, written_by, installed, borrow, pc, frame >>

-----------------------------------------------------------------------------
(* Bounds of the model. *)

\* number of distinct caller-chosen strings (messages, General payloads)
MaxStrings == 4

\* number of constructor / to_string calls recorded in one behaviour
MaxCalls == 2

\* number of set_evaluation_context calls in one behaviour
MaxSets == 2

StringPool ==
    << "Custom error", "Custom error message", "", "FLAG_NOT_FOUND",
       "The flag could not be found.", "No-op provider is never ready" >>

Strings ==
    { StringPool[i] : i \in { j \in 1..Len(StringPool) : j <= MaxStrings } }

-----------------------------------------------------------------------------
(* Option<T> *)

None == << >>

Some(x) == << x >>

OptionOf(S) == { None } \cup { Some(x) : x \in S }

-----------------------------------------------------------------------------
(* enum EvaluationErrorCode *)

FixedTags ==
    { "ProviderNotReady", "FlagNotFound", "ParseError", "TypeMismatch",
      "TargetingKeyMissing", "InvalidContext" }

FixedCodes == { << t >> : t \in FixedTags }

General(m) == << "General", m >>

EvaluationErrorCode == FixedCodes \cup { General(m) : m \in Strings }

\* to_string with one arm's literal pasted from its neighbour
to_string_pasted(self) ==
    CASE self = << "ProviderNotReady" >>    -> "PROVIDER_NOT_READY"
      [] self = << "FlagNotFound" >>        -> "FLAG_NOT_FOUND"
      [] self = << "ParseError" >>          -> "PARSE_ERROR"
      [] self = << "TypeMismatch" >>        -> "PARSE_ERROR"
      [] self = << "TargetingKeyMissing" >> -> "TARGETING_KEY_MISSING"
      [] self = << "InvalidContext" >>      -> "INVALID_CONTEXT"
      [] self[1] = "General"                -> self[2]

\* to_string that derives the token of General from the variant name
to_string_general_token(self) ==
    CASE self = << "ProviderNotReady" >>    -> "PROVIDER_NOT_READY"
      [] self = << "FlagNotFound" >>        -> "FLAG_NOT_FOUND"
      [] self = << "ParseError" >>          -> "PARSE_ERROR"
      [] self = << "TypeMismatch" >>        -> "TYPE_MISMATCH"
      [] self = << "TargetingKeyMissing" >> -> "TARGETING_KEY_MISSING"
      [] self = << "InvalidContext" >>      -> "INVALID_CONTEXT"
      [] self[1] = "General"                -> "GENERAL"

\* impl ToString for EvaluationErrorCode
to_string(self) ==
    CASE self = << "ProviderNotReady" >>    -> "PROVIDER_NOT_READY"
      [] self = << "FlagNotFound" >>        -> "FLAG_NOT_FOUND"
      [] self = << "ParseError" >>          -> "PARSE_ERROR"
      [] self = << "TypeMismatch" >>        -> "TYPE_MISMATCH"
      [] self = << "TargetingKeyMissing" >> -> "TARGETING_KEY_MISSING"
      [] self = << "InvalidContext" >>      -> "INVALID_CONTEXT"
      [] self[1] = "General"                -> self[2]

-----------------------------------------------------------------------------
(* struct EvaluationError and its constructors *)

\* default_message with the TargetingKeyMissing text used for InvalidContext too
default_message_pasted(code) ==
    CASE code = << "ProviderNotReady" >> ->
            "The value was resolved before the provider was initialized."
      [] code = << "FlagNotFound" >> ->
            "The flag could not be found."
      [] code = << "ParseError" >> ->
            "An error was encountered parsing data, such as a flag configuration."
      [] code = << "TypeMismatch" >> ->
            "The type of the flag value does not match the expected type."
      [] code = << "TargetingKeyMissing" >> ->
            "The provider requires a targeting key and one was not provided in the evaluation context."
      [] code = << "InvalidContext" >> ->
            "The provider requires a targeting key and one was not provided in the evaluation context."
      [] code[1] = "General" ->
            code[2]

\* the `default_message` local of new_with_message
default_message(code) ==
    CASE code = << "ProviderNotReady" >> ->
            "The value was resolved before the provider was initialized."
      [] code = << "FlagNotFound" >> ->
            "The flag could not be found."
      [] code = << "ParseError" >> ->
            "An error was encountered parsing data, such as a flag configuration."
      [] code = << "TypeMismatch" >> ->
            "The type of the flag value does not match the expected type."
      [] code = << "TargetingKeyMissing" >> ->
            "The provider requires a targeting key and one was not provided in the evaluation context."
      [] code = << "InvalidContext" >> ->
            "The evaluation context does not meet provider requirements."
      [] code[1] = "General" ->
            code[2]

\* new_with_message that stores the message as given, without the fallback
new_with_message_as_given(code, message) ==
    [ code |-> code, message |-> message ]

\* new_with_message whose default message wins over the explicit one
new_with_message_default_wins(code, message) ==
    [ code |-> code, message |-> Some(default_message(code)) ]

\* new_with_message that moves an explicit message into the General payload
new_with_message_rewrites_code(code, message) ==
    [ code    |-> IF code[1] = "General" /\ message # None
                  THEN General(message[1])
                  ELSE code,
      message |-> IF message # None THEN Some(message[1])
                                    ELSE Some(default_message(code)) ]

\* EvaluationError::new_with_message(code, message)
new_with_message(code, message) ==
    [ code    |-> code,
      message |-> CASE message # None -> Some(message[1])
                    [] message = None -> Some(default_message(code)) ]

\* new that builds the struct directly and leaves the message unset
new_without_default(code) == [ code |-> code, message |-> None ]

\* EvaluationError::new(code)
new(code) == new_with_message(code, None)

\* EvaluationError::code(&self)
code_of(self) == self.code

\* EvaluationError::message(&self): Option<&str>
message_of(self) == self.message

\* #[derive(TypedBuilder)]: EvaluationError::builder() starts with no field
\* set; `code` has no default and must be set before build() type-checks.
builder == [ code |-> None, message |-> None ]

\* .code(c)
builder_code(b, c) == [ b EXCEPT !.code = Some(c) ]

\* .message(s): setter(strip_option, into) wraps the string in Some
builder_message(b, s) == [ b EXCEPT !.message = Some(s) ]

\* build that fills in the default message of the code whatever was set
build_defaulting(b) ==
    [ code |-> b.code[1], message |-> Some(default_message(b.code[1])) ]

\* .build(): #[builder(default)] leaves an unset message at
\* Option::default(), which is None
build(b) == [ code |-> b.code[1], message |-> b.message ]

-----------------------------------------------------------------------------
(* The calls a program makes on this API.  Each call is recorded with its  *)
(* inputs and what it returned: err for a constructor, str for to_string.  *)

Call(op, c, arg, err, str) ==
    [ op |-> op, code |-> c, arg |-> arg, err |-> err, str |-> str ]

CallNew ==
    /\ Cardinality(calls) < MaxCalls
    /\ \E c \in EvaluationErrorCode :
          calls' = calls \cup { Call("new", c, None, Some(new(c)), None) }
    /\ UNCHANGED clientVars

CallNewWithMessage ==
    /\ Cardinality(calls) < MaxCalls
    /\ \E c \in EvaluationErrorCode, m \in OptionOf(Strings) :
          calls' = calls \cup
              { Call("new_with_message", c, m, Some(new_with_message(c, m)), None) }
    /\ UNCHANGED clientVars

CallBuilder ==
    /\ Cardinality(calls) < MaxCalls
    /\ \E c \in EvaluationErrorCode, m \in OptionOf(Strings) :
          LET b0 == builder_code(builder, c)
              b1 == IF m = None THEN b0 ELSE builder_message(b0, m[1])
          IN  calls' = calls \cup { Call("builder", c, m, Some(build(b1)), None) }
    /\ UNCHANGED clientVars

CallToString ==
    /\ Cardinality(calls) < MaxCalls
    /\ \E c \in EvaluationErrorCode :
          calls' = calls \cup { Call("to_string", c, None, None, Some(to_string(c))) }
    /\ UNCHANGED clientVars

-----------------------------------------------------------------------------
(* EvaluationContext, ResolutionDetails, EvaluationDetails, FeatureProvider *)
(* and the bodies of the ClientTraits methods are not in the source tree:  *)
(* they follow spec sections 3, 4.2, 4.3, 4.4 and 5.  The receivers        *)
(* (&mut self, &self) and the return shapes are those of src/src/traits.rs. *)

Threads == { "t1", "t2" }

Flags == { "my-flag", "missing" }

\* the instantiation of T
Values == BOOLEAN

EmptyMap == [ k \in {} |-> "" ]

DefaultContext == [ targeting_key |-> None, attributes |-> EmptyMap ]

Contexts ==
    { DefaultContext,
      [ targeting_key |-> Some("user-1"),
        attributes    |-> [ k \in { "region" } |-> "us" ] ],
      [ targeting_key |-> None,
        attributes    |-> [ k \in { "region", "plan" } |->
                              IF k = "region" THEN "eu" ELSE "pro" ] ] }

\* merge(base, overlay): the overlay wins per attribute key and for the
\* targeting key when it has one
merge(base, overlay) ==
    [ targeting_key |-> IF overlay.targeting_key # None
                        THEN overlay.targeting_key
                        ELSE base.targeting_key,
      attributes    |->
          [ k \in (DOMAIN base.attributes) \cup (DOMAIN overlay.attributes) |->
              IF k \in DOMAIN overlay.attributes
              THEN overlay.attributes[k]
              ELSE base.attributes[k] ] ]

Ok(r) == [ ok |-> Some(r), err |-> None ]

Err(e) == [ ok |-> None, err |-> Some(e) ]

\* FeatureProvider::resolve_<type>: an external collaborator, so every
\* outcome its contract allows is possible
resolve(flag_key, default_value, context) ==
    { Ok([ value |-> v, variant |-> var, reason |-> Some("STATIC") ]) :
          v \in Values, var \in { None, Some("on") } }
    \cup { Err(new(<< "ProviderNotReady" >>)) }
    \cup { Err(new(<< "FlagNotFound" >>)) : f \in { flag_key } \cap { "missing" } }
    \cup { Err(new(<< "TargetingKeyMissing" >>)) :
              k \in { context.targeting_key } \cap { None } }

\* evaluate, on Ok(resolution): ResolutionDetails packaged into EvaluationDetails
details_of_resolution(flag, default_value, r) ==
    [ value         |-> r.value,
      flag_key      |-> flag,
      variant       |-> r.variant,
      reason        |-> r.reason,
      error_code    |-> None,
      error_message |-> None ]

\* details_of_error that carries T::default() instead of the caller's default
details_of_error_type_default(flag, default_value, e) ==
    [ value         |-> FALSE,
      flag_key      |-> flag,
      variant       |-> None,
      reason        |-> None,
      error_code    |-> Some(code_of(e)),
      error_message |-> message_of(e) ]

\* evaluate, on Err(error): the default value plus the error's code and message
details_of_error(flag, default_value, e) ==
    [ value         |-> default_value,
      flag_key      |-> flag,
      variant       |-> None,
      reason        |-> None,
      error_code    |-> Some(code_of(e)),
      error_message |-> message_of(e) ]

\* a unique borrow that excludes other writers only
CanBorrowMut_writers_only(t) == \A u \in Threads : borrow[u] # "mut"

\* fn set_evaluation_context(&mut self, ..): a unique borrow of the client
\* exists only while no other borrow of it does
CanBorrowMut(t) == \A u \in Threads : borrow[u] = "none"

\* fn evaluate(&self, ..): a shared borrow excludes only a unique one
CanBorrowShared(t) == \A u \in Threads : borrow[u] # "mut"

NoFrame ==
    [ eval_ctx |-> None, call |-> 0, flag |-> None, default_value |-> None,
      seen_targeting_key |-> None, seen_attributes |-> None,
      targeting_key_of |-> 0, attributes_of |-> 0,
      details |-> None, failed |-> None ]

\* set_evaluation_context(&mut self, eval_ctx): entry
SetBegin(t) ==
    /\ pc[t] = "idle"
    /\ Len(installed) < MaxSets + 1
    /\ CanBorrowMut(t)
    /\ \E eval_ctx \in Contexts :
          /\ installed' = Append(installed, eval_ctx)
          /\ frame' = [ frame EXCEPT ![t] =
                          [ NoFrame EXCEPT !.eval_ctx = Some(eval_ctx),
                                           !.call = Len(installed) ] ]
    /\ borrow' = [ borrow EXCEPT ![t] = "mut" ]
    /\ pc' = [ pc EXCEPT ![t] = "set_targeting_key" ]
    /\ UNCHANGED << calls, evaluation_context, written_by >>

\* self.evaluation_context = eval_ctx: the targeting key is stored
SetTargetingKey(t) ==
    /\ pc[t] = "set_targeting_key"
    /\ evaluation_context' =
          [ evaluation_context EXCEPT
              !.targeting_key = frame[t].eval_ctx[1].targeting_key ]
    /\ written_by' = [ written_by EXCEPT !.targeting_key = frame[t].call ]
    /\ pc' = [ pc EXCEPT ![t] = "set_attributes" ]
    /\ UNCHANGED << calls, installed, borrow, frame >>

\* self.evaluation_context = eval_ctx: the attributes are stored; return
SetAttributes(t) ==
    /\ pc[t] = "set_attributes"
    /\ evaluation_context' =
          [ evaluation_context EXCEPT
              !.attributes = frame[t].eval_ctx[1].attributes ]
    /\ written_by' = [ written_by EXCEPT !.attributes = frame[t].call ]
    /\ borrow' = [ borrow EXCEPT ![t] = "none" ]
    /\ frame' = [ frame EXCEPT ![t] = NoFrame ]
    /\ pc' = [ pc EXCEPT ![t] = "idle" ]
    /\ UNCHANGED << calls, installed >>

\* evaluate(&self, flag, default_value, eval_ctx): entry
EvaluateBegin(t) ==
    /\ pc[t] = "idle"
    /\ CanBorrowShared(t)
    /\ \E flag \in Flags, default_value \in Values, eval_ctx \in Contexts :
          frame' = [ frame EXCEPT ![t] =
                       [ NoFrame EXCEPT !.flag = Some(flag),
                                        !.default_value = Some(default_value),
                                        !.eval_ctx = Some(eval_ctx) ] ]
    /\ borrow' = [ borrow EXCEPT ![t] = "shared" ]
    /\ pc' = [ pc EXCEPT ![t] = "read_targeting_key" ]
    /\ UNCHANGED << calls, evaluation_context, written_by, installed >>

\* evaluate reads the client-held context: its targeting key
EvaluateReadTargetingKey(t) ==
    /\ pc[t] = "read_targeting_key"
    /\ frame' = [ frame EXCEPT
                    ![t].seen_targeting_key = Some(evaluation_context.targeting_key),
                    ![t].targeting_key_of = written_by.targeting_key ]
    /\ pc' = [ pc EXCEPT ![t] = "read_attributes" ]
    /\ UNCHANGED << calls, evaluation_context, written_by, installed, borrow >>

\* evaluate reads the client-held context: its attributes
EvaluateReadAttributes(t) ==
    /\ pc[t] = "read_attributes"
    /\ frame' = [ frame EXCEPT
                    ![t].seen_attributes = Some(evaluation_context.attributes),
                    ![t].attributes_of = written_by.attributes ]
    /\ pc' = [ pc EXCEPT ![t] = "resolve" ]
    /\ UNCHANGED << calls, evaluation_context, written_by, installed, borrow >>

\* evaluate merges, dispatches to the provider, packages the outcome, returns
EvaluateResolve(t) ==
    /\ pc[t] = "resolve"
    /\ LET flag   == frame[t].flag[1]
           dflt   == frame[t].default_value[1]
           seen   == [ targeting_key |-> frame[t].seen_targeting_key[1],
                       attributes    |-> frame[t].seen_attributes[1] ]
           merged == merge(seen, frame[t].eval_ctx[1])
       IN  \E res \in resolve(flag, dflt, merged) :
              frame' = [ frame EXCEPT
                  ![t].details =
                      IF res.err = None
                      THEN Some(details_of_resolution(flag, dflt, res.ok[1]))
                      ELSE Some(details_of_error(flag, dflt, res.err[1])),
                  ![t].failed = Some(res.err # None) ]
    /\ borrow' = [ borrow EXCEPT ![t] = "none" ]
    /\ pc' = [ pc EXCEPT ![t] = "returned" ]
    /\ UNCHANGED << calls, evaluation_context, written_by, installed >>

\* the caller drops the returned (EvaluationDetails<T>, Error)
EvaluateDone(t) ==
    /\ pc[t] = "returned"
    /\ frame' = [ frame EXCEPT ![t] = NoFrame ]
    /\ pc' = [ pc EXCEPT ![t] = "idle" ]
    /\ UNCHANGED << calls, evaluation_context, written_by, installed, borrow >>

-----------------------------------------------------------------------------
Init ==
    /\ calls = {}
    /\ evaluation_context = DefaultContext
    /\ written_by = [ targeting_key |-> 0, attributes |-> 0 ]
    /\ installed = << DefaultContext >>
    /\ borrow = [ t \in Threads |-> "none" ]
    /\ pc = [ t \in Threads |-> "idle" ]
    /\ frame = [ t \in Threads |-> NoFrame ]

NextClient ==
    \/ \E t \in Threads : SetBegin(t)
    \/ \E t \in Threads : SetTargetingKey(t)
    \/ \E t \in Threads : SetAttributes(t)
    \/ \E t \in Threads : EvaluateBegin(t)
    \/ \E t \in Threads : EvaluateReadTargetingKey(t)
    \/ \E t \in Threads : EvaluateReadAttributes(t)
    \/ \E t \in Threads : EvaluateResolve(t)
    \/ \E t \in Threads : EvaluateDone(t)

SpecClient == Init /\ [][NextClient]_vars

Next ==
    \/ CallNew
    \/ CallNewWithMessage
    \/ CallBuilder
    \/ CallToString

Spec == Init /\ [][Next]_vars

-----------------------------------------------------------------------------
(* Expected values: the table of spec section 6, written out independently *)
(* of to_string and default_message.                                       *)

TableToken ==
    [ ProviderNotReady    |-> "PROVIDER_NOT_READY",
      FlagNotFound        |-> "FLAG_NOT_FOUND",
      ParseError          |-> "PARSE_ERROR",
      TypeMismatch        |-> "TYPE_MISMATCH",
      TargetingKeyMissing |-> "TARGETING_KEY_MISSING",
      InvalidContext      |-> "INVALID_CONTEXT" ]

TableMessage ==
    [ ProviderNotReady    |->
          "The value was resolved before the provider was initialized.",
      FlagNotFound        |->
          "The flag could not be found.",
      ParseError          |->
          "An error was encountered parsing data, such as a flag configuration.",
      TypeMismatch        |->
          "The type of the flag value does not match the expected type.",
      TargetingKeyMissing |->
          "The provider requires a targeting key and one was not provided in the evaluation context.",
      InvalidContext      |->
          "The evaluation context does not meet provider requirements." ]

IsFixed(c) == c \in FixedCodes

IsGeneral(c) == c[1] = "General"

ExpectedMessage(c) == IF IsFixed(c) THEN TableMessage[c[1]] ELSE c[2]

ExpectedToken(c) == IF IsFixed(c) THEN TableToken[c[1]] ELSE c[2]

Returned(t) == pc[t] = "returned"

-----------------------------------------------------------------------------
(* Claims *)

\* C1: for every code c, new(c).message is Some(default message of c): the
\* table string of spec section 6 for a fixed code, Some(m) for General(m).
C1_NewFillsDefaultMessage ==
    \A r \in calls :
        r.op = "new" => message_of(r.err[1]) = Some(ExpectedMessage(r.code))

C1_Witness ==
    /\ \E r \in calls : r.op = "new" /\ r.code = << "InvalidContext" >>
    /\ \E r \in calls : r.op = "new" /\ IsGeneral(r.code)

\* C2 (as stated): an error constructed without an explicit message, through
\* new, new_with_message(.., None) or the builder with only `code` set, has
\* the default message of its code; for a fixed code it is never None.
C2_Original ==
    \A r \in calls :
        (r.op \in { "new", "new_with_message", "builder" } /\ r.arg = None)
            => /\ message_of(r.err[1]) = Some(ExpectedMessage(r.code))
               /\ IsFixed(r.code) => message_of(r.err[1]) # None

\* C2 (amended): new and new_with_message(.., None) populate the message
\* with the default message of the code, never None; the builder with only
\* `code` set leaves the message None.
C2_Amended ==
    \A r \in calls :
        /\ (r.op \in { "new", "new_with_message" } /\ r.arg = None)
              => /\ message_of(r.err[1]) = Some(ExpectedMessage(r.code))
                 /\ message_of(r.err[1]) # None
        /\ (r.op = "builder" /\ r.arg = None)
              => message_of(r.err[1]) = None

C2_Witness ==
    /\ \E r \in calls : r.op = "builder" /\ r.arg = None /\ IsFixed(r.code)
    /\ \E r \in calls :
          r.op = "new_with_message" /\ r.arg = None /\ IsFixed(r.code)

\* C3: for every code c and string s, new_with_message(c, Some(s)).message
\* is Some(s), also when c is General(m) with m different from s.
C3_ExplicitMessageKept ==
    \A r \in calls :
        (r.op = "new_with_message" /\ r.arg # None)
            => message_of(r.err[1]) = Some(r.arg[1])

C3_Witness ==
    /\ \E r \in calls :
          /\ r.op = "new_with_message" /\ IsGeneral(r.code)
          /\ r.arg # None /\ r.arg # Some(r.code[2])
    /\ \E r \in calls :
          r.op = "new_with_message" /\ IsFixed(r.code) /\ r.arg # None

\* C4: for every code c, new_with_message(c, None) returns a value equal in
\* code and message to new(c).
C4_NoneBehavesAsNew ==
    \A r1, r2 \in calls :
        ( /\ r1.op = "new"
          /\ r2.op = "new_with_message" /\ r2.arg = None
          /\ r1.code = r2.code )
            => /\ r1.err = r2.err
               /\ code_of(r1.err[1]) = code_of(r2.err[1])
               /\ message_of(r1.err[1]) = message_of(r2.err[1])

C4_Witness ==
    \E r1, r2 \in calls :
        /\ r1.op = "new"
        /\ r2.op = "new_with_message" /\ r2.arg = None
        /\ r1.code = r2.code

\* C5: to_string maps each fixed code to its exact wire token and General(m)
\* to m itself.
C5_ToStringWireToken ==
    \A r \in calls :
        r.op = "to_string" => r.str = Some(ExpectedToken(r.code))

C5_Witness ==
    /\ \E r \in calls : r.op = "to_string" /\ r.code = << "TargetingKeyMissing" >>
    /\ \E r \in calls : r.op = "to_string" /\ IsGeneral(r.code)

\* C6: whenever the EvaluationDetails returned by evaluate has error_code
\* set, its value is the caller-supplied default; error_code is set exactly
\* when the resolution failed, and the value slot is populated either way.
C6_FailedResolutionYieldsDefault ==
    \A t \in Threads :
        Returned(t) =>
            /\ frame[t].details # None
            /\ frame[t].details[1].value \in Values
            /\ (frame[t].details[1].error_code # None) = frame[t].failed[1]
            /\ frame[t].details[1].error_code # None
                  => frame[t].details[1].value = frame[t].default_value[1]

C6_Witness ==
    \E t \in Threads :
        /\ Returned(t)
        /\ frame[t].details[1].error_code = Some(<< "FlagNotFound" >>)
        /\ frame[t].default_value = Some(TRUE)

\* C7: every evaluate observes the client context entirely as one
\* set_evaluation_context call (or construction) left it: the targeting key
\* and the attributes it read were written by the same call and are that
\* call's context, never a mixture of two.
C7_ContextNeverSeenHalfApplied ==
    \A t \in Threads :
        pc[t] \in { "resolve", "returned" } =>
            /\ frame[t].targeting_key_of = frame[t].attributes_of
            /\ [ targeting_key |-> frame[t].seen_targeting_key[1],
                 attributes    |-> frame[t].seen_attributes[1] ]
                  = installed[frame[t].targeting_key_of + 1]

C7_Witness ==
    \E t, u \in Threads :
        /\ pc[t] = "resolve" /\ frame[t].targeting_key_of = 1
        /\ installed[2] # installed[1]
        /\ pc[u] = "idle" /\ Len(installed) < MaxSets + 1
        /\ ~ CanBorrowMut(u)

\* C8: the builder with both code c and message s set builds an error whose
\* code is c and whose message is Some(s), not the default message of c.
C8_BuilderKeepsCodeAndMessage ==
    \A r \in calls :
        (r.op = "builder" /\ r.arg # None)
            => /\ code_of(r.err[1]) = r.code
               /\ message_of(r.err[1]) = Some(r.arg[1])

C8_Witness ==
    \E r \in calls :
        /\ r.op = "builder" /\ r.code = << "ProviderNotReady" >>
        /\ r.arg # None /\ r.arg # Some(TableMessage.ProviderNotReady)

\* C9: new and new_with_message leave the code unchanged: the returned
\* error's code, and code(), is the code passed in, including the payload of
\* General(m) when an explicit message different from m is supplied.
C9_CodeUnchanged ==
    \A r \in calls :
        r.op \in { "new", "new_with_message" }
            => /\ r.err[1].code = r.code
               /\ code_of(r.err[1]) = r.code

C9_Witness ==
    /\ \E r \in calls :
          /\ r.op = "new_with_message" /\ IsGeneral(r.code)
          /\ r.arg # None /\ r.arg[1] # r.code[2]
    /\ \E r \in calls : r.op = "new" /\ IsGeneral(r.code)

\* C10: over the six fixed codes, to_string is injective and the default
\* message given by new is injective: equal tokens, or equal default
\* messages, only for equal codes.
C10_FixedCodesInjective ==
    \A r1, r2 \in calls :
        (r1.op = r2.op /\ IsFixed(r1.code) /\ IsFixed(r2.code))
            => /\ (r1.op = "to_string" /\ r1.str = r2.str) => r1.code = r2.code
               /\ (r1.op = "new" /\ message_of(r1.err[1]) = message_of(r2.err[1]))
                     => r1.code = r2.code

C10_Witness ==
    \E r1, r2 \in calls :
        /\ r1.op = "to_string" /\ r2.op = "to_string"
        /\ r1.code = << "ParseError" >> /\ r2.code = << "TypeMismatch" >>

====
